---- MODULE Spec2Model ----
(***************************************************************************)
(* Model of scripts/test-integration.py of Fornax: the QemuDriver serial   *)
(* console driver (start, expect, send_line, send_cmd, stop, wait_exit)    *)
(* and main(), the fail-fast sequencer of the six test steps.              *)
(*                                                                         *)
(* Four specifications share the variables:                                *)
(*   Spec      QemuDriver under an arbitrary single caller, with the       *)
(*             subprocess (QEMU) as an asynchronous environment;           *)
(*   FairSpec  the expect loop alone, with fairness, for termination;      *)
(*   MatchSpec start, stop and expect with literal and repeating patterns; *)
(*   SpecMain  main(): pre-flight, start, the six steps, cleanup, summary. *)
(*                                                                         *)
(* Bytes are modelled as one-character tokens ("x", "\n", " ", digits) and *)
(* the two fixed pieces of a marker ("__D", "__").  Time is counted in     *)
(* ticks of 0.25 s; time.monotonic() has an arbitrary origin, so each      *)
(* expect call takes its own start as 0.                                   *)
(***************************************************************************)
EXTENDS Integers, Sequences, FiniteSets, TLC

\* ------------------------------------------------------------------ bounds
\* chunks one subprocess may write in total
MaxEmits == 2
\* send_cmd invocations per run (caps QemuDriver._cmd_seq)
MaxCmds == 2
\* largest expect timeout, in ticks
MaxT == 3

\* ------------------------------------------------------- program constants
\* the select() cap of 0.5 s in expect, in ticks of 0.25 s
PollTicks == 2
\* os.read(fd, 4096): the largest chunk one read returns, scaled to tokens
ReadSize == 4

NL == "\n"

VARIABLES
  proc,        \* self.proc: "None" or "Popen"
  child,       \* the OS process: "unspawned", "running", "exited"
  buf,         \* self.buf, the working buffer
  full_log,    \* self.full_log, the transcript
  cmd_seq,     \* QemuDriver._cmd_seq, a class attribute
  pipe,        \* bytes the subprocess wrote that no read has returned yet
  out,         \* every byte the subprocess wrote, in order
  op,          \* the driver call in progress: "idle" or "expect"
  epc,         \* position in expect's loop: "top", "select", "poll"
  caller,      \* who runs the expect loop: "expect" or "send_cmd"
  pattern,     \* the compiled pattern of the expect in progress
  now,         \* time.monotonic() - (its value when expect was called)
  deadline,    \* expect's deadline
  selectUntil, \* when the select() in progress gives up
  lastOp,      \* the driver call in progress, or the last one made
  result,      \* "running", or how it ended: "ok" or the exception's name
  matchStart,  \* offset in the output stream of the last match's start, or -1
  matchEnd,    \* offset in the output stream of its end (m.end()), or -1
  prevStart,   \* matchStart of the match before it, -1 when there is none
  prevEnd,     \* matchEnd of the match before it, -1 when there is none
  markers,     \* the markers send_cmd generated, in call order
  emits,       \* how many chunks the subprocess has written
  timeout,     \* the timeout argument of the last expect
  deadAtCall,  \* whether that expect was called with self.proc set and exited
  deadIters,   \* loop iterations of that expect begun with the subprocess exited
  iters,       \* loop iterations begun by the expect in progress (2: two or more)
  held,        \* the match the working buffer held when that expect was called
  pc,          \* main: where it stands
  passed,      \* main: passed
  failed,      \* main: failed
  qemu,        \* main: whether qemu is bound to a QemuDriver (not None)
  stepNo,      \* main: the test step (1..6) it stands at
  ret,         \* main: what the step just invoked returned, not yet tallied
  calls,       \* main: the test steps invoked so far, each with how it ended
  left,        \* main: how the try body was left: "no" while inside it, "end",
               \*   "return" (return 1), "KeyboardInterrupt" or "Exception"
  exitStatus,  \* main: its return value, -1 while it runs
  logFile,     \* test-serial.log: whether it was written, and the bytes written
  started,     \* main: whether qemu.start() was called in this run
  abortAt      \* main: the statement at which the try body was left, or "none"

driverVars == <<proc, child, buf, full_log, cmd_seq, pipe, out, op, epc, caller,
                pattern, now, deadline, selectUntil, lastOp, result,
                matchStart, matchEnd, prevStart, prevEnd, markers, emits,
                timeout, deadAtCall, deadIters, iters, held>>

mainVars == <<pc, passed, failed, qemu, stepNo, ret, calls, left, exitStatus,
              logFile, started, abortAt>>

vars == <<driverVars, mainVars>>

\* ------------------------------------------------------------ pure helpers
Min(a, b) == IF a <= b THEN a ELSE b

Digits == <<"0", "1", "2", "3", "4", "5", "6", "7", "8", "9">>

\* str(n) of a non-negative integer, as f"{n}" formats it
RECURSIVE Decimal(_)
Decimal(n) == IF n < 10 THEN <<Digits[n + 1]>>
              ELSE Decimal(n \div 10) \o <<Digits[(n % 10) + 1]>>

\* marker = f"__D{QemuDriver._cmd_seq}__"
Marker(n) == <<"__D">> \o Decimal(n) \o <<"__">>

\* the marker anywhere: rf"{marker}"
MarkerPattern_Unanchored(n) == Marker(n)

\* the pattern send_cmd waits for: rf"\n{marker}"
MarkerPattern(n) == <<NL>> \o Marker(n)

\* the integer a marker carries
DigitVal(c) == CHOOSE d \in 0..9 : Digits[d + 1] = c

RECURSIVE DecimalVal(_)
DecimalVal(ds) == IF Len(ds) = 0 THEN 0
                  ELSE 10 * DecimalVal(SubSeq(ds, 1, Len(ds) - 1)) + DigitVal(ds[Len(ds)])

MarkerInt(m) == DecimalVal(SubSeq(m, 2, Len(m) - 1))

\* the line send_cmd sends, from the marker on: f"{cmd}; echo {marker}"
EchoTail(n) == <<" ">> \o Marker(n)

\* whether literal pattern p occurs in b at offset i
MatchesAt(p, b, i) == i + Len(p) <= Len(b) /\ SubSeq(b, i + 1, i + Len(p)) = p

NoMatch == [found |-> FALSE, start |-> 0, end |-> 0]

\* A pattern is a literal, or a literal followed by "+": its last byte
\* repeated one or more times, greedily (as in \d+).
Greedy(p) == p # <<>> /\ p[Len(p)] = "+"

Literal(p) == IF Greedy(p) THEN SubSeq(p, 1, Len(p) - 1) ELSE p

\* where a run of byte t that reaches offset e in b ends
RunEnd(b, e, t) ==
  CHOOSE k \in e..Len(b) :
    /\ \A j \in (e + 1)..k : b[j] = t
    /\ k = Len(b) \/ b[k + 1] # t

\* compiled.search(self.buf): the leftmost match, with m.start() and m.end()
Search(p, b) ==
  LET l == Literal(p)
      S == {i \in 0..Len(b) : MatchesAt(l, b, i)}
  IN IF S = {} THEN NoMatch
     ELSE LET s == CHOOSE i \in S : \A j \in S : i <= j
          IN [found |-> TRUE, start |-> s,
              end |-> IF Greedy(p) /\ l # <<>>
                      THEN RunEnd(b, s + Len(l), l[Len(l)])
                      ELSE s + Len(l)]

\* the bytes before the match kept instead of those after it
TrimTo_Head(b, m) == SubSeq(b, 1, m.start)

\* self.buf[m.start():]
TrimTo_FromStart(b, m) == SubSeq(b, m.start + 1, Len(b))

\* self.buf[m.end() + 1:]
TrimTo_OneMore(b, m) == SubSeq(b, m.end + 2, Len(b))

\* self.buf[m.end():]
TrimTo(b, m) == SubSeq(b, m.end + 1, Len(b))

\* the working buffer replaced by the chunk just read
Buffered_ChunkOnly(b, chunk) == IF chunk = <<>> THEN b ELSE chunk

\* self.buf += chunk
Buffered(b, chunk) == b \o chunk

\* self.full_log = chunk
Logged_Overwrite(log, chunk) == chunk

\* self.full_log += chunk
Logged(log, chunk) == log \o chunk

\* os.read(fd, 4096): at most ReadSize of the bytes waiting in the pipe
ReadChunk(p) == SubSeq(p, 1, Min(Len(p), ReadSize))

IsPrefix(s, t) == Len(s) <= Len(t) /\ SubSeq(t, 1, Len(s)) = s

Contains(b, p) == \E i \in 0..Len(b) : MatchesAt(p, b, i)

\* ------------------------------------------------------------------- Init
\* The module is loaded (QemuDriver._cmd_seq = 0) and no subprocess exists;
\* the driver fields hold what QemuDriver.__init__ gives them.
DriverInit ==
  /\ proc = "None" /\ child = "unspawned"
  /\ buf = <<>> /\ full_log = <<>> /\ cmd_seq = 0
  /\ pipe = <<>> /\ out = <<>> /\ emits = 0
  /\ op = "idle" /\ epc = "top" /\ caller = "expect" /\ pattern = <<>>
  /\ now = 0 /\ deadline = 0 /\ timeout = 0 /\ selectUntil = 0
  /\ lastOp = "__init__" /\ result = "ok"
  /\ matchStart = -1 /\ matchEnd = -1 /\ prevStart = -1 /\ prevEnd = -1
  /\ markers = <<>> /\ deadAtCall = FALSE /\ deadIters = 0
  /\ iters = 0 /\ held = NoMatch

\* main(): passed = 0, failed = 0, qemu = None
MainInit ==
  /\ pc = "find_ovmf" /\ passed = 0 /\ failed = 0 /\ qemu = FALSE
  /\ stepNo = 1 /\ ret = TRUE /\ calls = <<>> /\ left = "no"
  /\ exitStatus = -1 /\ logFile = [written |-> FALSE, bytes |-> <<>>]
  /\ started = FALSE /\ abortAt = "none"

Init == DriverInit /\ MainInit

\* --------------------------------------------------------- the subprocess
\* select() reports the descriptor readable: bytes wait, or the write end
\* is closed (EOF) because the subprocess exited
Ready == pipe # <<>> \/ child = "exited"

\* what the subprocess may write in one go: unrelated output, the echo of
\* the command line it was sent last, the marker line of that command or
\* of the one before it (a late one)
EmitChunks == {<<"y", "x">>} \cup {EchoTail(k) : k \in {cmd_seq} \ {0}}
                        \cup {MarkerPattern(k) : k \in {cmd_seq - 1, cmd_seq} \ {-1, 0}}

Emit(c) ==
  /\ child = "running" /\ emits < MaxEmits
  /\ out' = out \o c /\ pipe' = pipe \o c /\ emits' = emits + 1
  /\ UNCHANGED <<proc, child, buf, full_log, cmd_seq, op, epc, caller, pattern,
                 now, deadline, selectUntil, lastOp, result, matchStart,
                 matchEnd, prevStart, prevEnd, markers, timeout, deadAtCall, deadIters, iters, held>>
  /\ UNCHANGED mainVars

\* the subprocess exits on its own (guest shutdown, crash)
ChildExit ==
  /\ child = "running"
  /\ child' = "exited"
  /\ UNCHANGED <<proc, buf, full_log, cmd_seq, pipe, out, op, epc, caller,
                 pattern, now, deadline, selectUntil, lastOp, result,
                 matchStart, matchEnd, prevStart, prevEnd, markers, emits, timeout,
                 deadAtCall, deadIters, iters, held>>
  /\ UNCHANGED mainVars

\* time passes while select() blocks: nothing readable, its wait not over
Tick ==
  /\ op = "expect" /\ epc = "select" /\ ~Ready /\ now < selectUntil
  /\ now' = now + 1
  /\ UNCHANGED <<proc, child, buf, full_log, cmd_seq, pipe, out, op, epc,
                 caller, pattern, deadline, selectUntil, lastOp, result,
                 matchStart, matchEnd, prevStart, prevEnd, markers, emits, timeout,
                 deadAtCall, deadIters, iters, held>>
  /\ UNCHANGED mainVars

\* -------------------------------------------------------------- QemuDriver
\* a driver call returns or raises: the caller has control again
Finish(who, res) ==
  /\ op' = "idle" /\ epc' = "top" /\ pattern' = <<>> /\ selectUntil' = 0
  /\ lastOp' = who /\ result' = res
  /\ deadAtCall' = FALSE /\ deadIters' = 0
  /\ iters' = 0 /\ held' = NoMatch
  /\ IF res = "TimeoutError"
     THEN UNCHANGED <<now, deadline, timeout>>
     ELSE now' = 0 /\ deadline' = 0 /\ timeout' = 0

\* QemuDriver.__init__ with the counter a field of the instance
QemuDriver_init_OwnCounter ==
  /\ proc' = "None" /\ buf' = <<>> /\ full_log' = <<>> /\ cmd_seq' = 0
  /\ child' = "unspawned" /\ pipe' = <<>> /\ out' = <<>> /\ emits' = 0
  /\ matchStart' = -1 /\ matchEnd' = -1
  /\ prevStart' = -1 /\ prevEnd' = -1
  /\ lastOp' = "__init__" /\ result' = "ok"
  /\ UNCHANGED <<markers, op, epc, caller, pattern, now, deadline,
                 selectUntil, timeout, deadAtCall, deadIters, iters, held>>

\* QemuDriver.__init__: a new driver; the counter belongs to the class
QemuDriver_init ==
  /\ proc' = "None" /\ buf' = <<>> /\ full_log' = <<>>
  /\ child' = "unspawned" /\ pipe' = <<>> /\ out' = <<>> /\ emits' = 0
  /\ matchStart' = -1 /\ matchEnd' = -1
  /\ prevStart' = -1 /\ prevEnd' = -1
  /\ lastOp' = "__init__" /\ result' = "ok"
  /\ UNCHANGED <<cmd_seq, markers, op, epc, caller, pattern, now, deadline,
                 selectUntil, timeout, deadAtCall, deadIters, iters, held>>

\* start: Popen spawns the subprocess, or raises OSError and leaves
\* self.proc None
start(spawned) ==
  /\ IF spawned
     THEN proc' = "Popen" /\ child' = "running" /\ result' = "ok"
     ELSE proc' = proc /\ child' = child /\ result' = "OSError"
  /\ lastOp' = "start"
  /\ UNCHANGED <<buf, full_log, cmd_seq, pipe, out, op, epc, caller, pattern,
                 now, deadline, selectUntil, matchStart, matchEnd, prevStart, prevEnd,
                 markers, emits, timeout, deadAtCall, deadIters, iters, held>>

\* compiled.search on the working buffer as it is at the call, with its
\* offsets counted in the subprocess output
HeldMatch(p) ==
  LET m == Search(p, buf)
      base == Len(full_log) - Len(buf)
  IN IF m.found
     THEN [found |-> TRUE, start |-> base + m.start, end |-> base + m.end]
     ELSE NoMatch

\* expect, lines 145-146: the deadline is set, the pattern compiled
expect_call(p, T, who) ==
  /\ op' = "expect" /\ epc' = "top" /\ caller' = who /\ pattern' = p
  /\ lastOp' = who /\ result' = "running"
  /\ now' = 0 /\ deadline' = 0 + T /\ timeout' = T /\ selectUntil' = 0
  /\ deadAtCall' = (proc # "None" /\ child = "exited") /\ deadIters' = 0
  /\ iters' = 0 /\ held' = HeldMatch(p)

\* the remaining time taken one tick short
Remaining_Early == deadline - (now + 1)

\* deadline - time.monotonic()
Remaining == deadline - now

\* min(remaining, 0.5), the wait handed to select()
SelectWait == Min(Remaining, PollTicks)

\* expect, lines 149-158: the timeout check at the top of the loop
ExpectTop ==
  /\ op = "expect" /\ epc = "top"
  /\ IF Remaining <= 0
     THEN Finish(caller, "TimeoutError")
     ELSE IF proc = "None"
     THEN Finish(caller, "AttributeError")
     ELSE /\ epc' = "select" /\ selectUntil' = now + SelectWait
          /\ deadIters' = IF child = "exited" THEN Min(deadIters + 1, 2)
                           ELSE deadIters
          /\ iters' = Min(iters + 1, 2) /\ held' = held
          /\ UNCHANGED <<op, pattern, lastOp, result, now, deadline, timeout,
                         deadAtCall>>
  /\ UNCHANGED <<proc, child, buf, full_log, cmd_seq, pipe, out, caller,
                 matchStart, matchEnd, prevStart, prevEnd, markers, emits>>
  /\ UNCHANGED mainVars

\* the loop body with the exit check moved before the read and the search
ExpectSelect_ExitFirst ==
  /\ op = "expect" /\ epc = "select"
  /\ Ready \/ now >= selectUntil
  /\ IF child = "exited"
     THEN /\ Finish(caller, "RuntimeError")
          /\ UNCHANGED <<buf, full_log, pipe, matchStart, matchEnd, prevStart,
                         prevEnd>>
     ELSE LET chunk == IF Ready THEN ReadChunk(pipe) ELSE <<>>
              buf1  == Buffered(buf, chunk)
              m     == Search(pattern, buf1)
              base  == (Len(out) - Len(pipe)) + Len(chunk) - Len(buf1)
          IN /\ pipe' = SubSeq(pipe, Len(chunk) + 1, Len(pipe))
             /\ full_log' = Logged(full_log, chunk)
             /\ IF m.found
                THEN /\ buf' = TrimTo(buf1, m)
                     /\ matchStart' = base + m.start /\ matchEnd' = base + m.end
                     /\ prevStart' = matchStart /\ prevEnd' = matchEnd
                     /\ Finish(caller, "ok")
                ELSE /\ buf' = buf1 /\ epc' = "poll" /\ selectUntil' = 0
                     /\ UNCHANGED <<op, pattern, lastOp, result, matchStart,
                                    matchEnd, prevStart, prevEnd, now, deadline,
                                    timeout, deadAtCall, deadIters, iters, held>>
  /\ UNCHANGED <<proc, child, cmd_seq, out, caller, markers, emits>>
  /\ UNCHANGED mainVars

\* expect, lines 159-178: select() returns, one os.read if readable, then
\* the search of the whole working buffer and, on a match, the trim
ExpectSelect ==
  /\ op = "expect" /\ epc = "select"
  /\ Ready \/ now >= selectUntil
  /\ LET chunk == IF Ready THEN ReadChunk(pipe) ELSE <<>>
         buf1  == Buffered(buf, chunk)
         m     == Search(pattern, buf1)
         base  == (Len(out) - Len(pipe)) + Len(chunk) - Len(buf1)
     IN /\ pipe' = SubSeq(pipe, Len(chunk) + 1, Len(pipe))
        /\ full_log' = Logged(full_log, chunk)
        /\ IF m.found
           THEN /\ buf' = TrimTo(buf1, m)
                /\ matchStart' = base + m.start /\ matchEnd' = base + m.end
                /\ prevStart' = matchStart /\ prevEnd' = matchEnd
                /\ Finish(caller, "ok")
           ELSE /\ buf' = buf1 /\ epc' = "poll" /\ selectUntil' = 0
                /\ UNCHANGED <<op, pattern, lastOp, result, matchStart,
                               matchEnd, prevStart, prevEnd, now, deadline, timeout,
                               deadAtCall, deadIters, iters, held>>
  /\ UNCHANGED <<proc, child, cmd_seq, out, caller, markers, emits>>
  /\ UNCHANGED mainVars

\* the exit looked at only once the deadline has passed
ProcessHasExited_AtDeadlineOnly == child = "exited" /\ Remaining <= 0

\* self.proc.poll() is not None
ProcessHasExited == child = "exited"

\* expect, lines 180-184: no match, so has the subprocess exited?
ExpectPoll ==
  /\ op = "expect" /\ epc = "poll"
  /\ IF ProcessHasExited
     THEN Finish(caller, "RuntimeError")
     ELSE /\ epc' = "top"
          /\ UNCHANGED <<op, pattern, selectUntil, lastOp, result, now,
                         deadline, timeout, deadAtCall, deadIters, iters, held>>
  /\ UNCHANGED <<proc, child, buf, full_log, cmd_seq, pipe, out, caller,
                 matchStart, matchEnd, prevStart, prevEnd, markers, emits>>
  /\ UNCHANGED mainVars

\* send_line: what the write and flush to the subprocess's stdin raise
send_line_result ==
  IF proc = "None" THEN "AttributeError"
  ELSE IF child = "exited" THEN "BrokenPipeError"
  ELSE "ok"

\* QemuDriver._cmd_seq += 1
NextSeq == cmd_seq + 1

\* stop that ends the subprocess but keeps the handle
stop_KeepHandle ==
  /\ proc' = proc
  /\ child' = IF proc = "None" THEN child ELSE "exited"
  /\ lastOp' = "stop" /\ result' = "ok"
  /\ UNCHANGED <<buf, full_log, cmd_seq, pipe, out, op, epc, caller, pattern,
                 now, deadline, selectUntil, matchStart, matchEnd, prevStart, prevEnd,
                 markers, emits, timeout, deadAtCall, deadIters, iters, held>>

\* stop: nothing without a handle; else SIGTERM, wait(5), kill on
\* TimeoutExpired, and the handle is cleared
stop ==
  /\ IF proc = "None"
     THEN proc' = proc /\ child' = child
     ELSE proc' = "None" /\ child' = "exited"
  /\ lastOp' = "stop" /\ result' = "ok"
  /\ UNCHANGED <<buf, full_log, cmd_seq, pipe, out, op, epc, caller, pattern,
                 now, deadline, selectUntil, matchStart, matchEnd, prevStart, prevEnd,
                 markers, emits, timeout, deadAtCall, deadIters, iters, held>>

\* wait_exit without the kill: TimeoutExpired leaves it when the subprocess
\* is still running at the end of the wait
wait_exit_NoKill ==
  /\ IF proc = "None"
     THEN proc' = proc /\ child' = child /\ result' = "AttributeError"
     ELSE IF child = "running"
     THEN proc' = proc /\ child' = child /\ result' = "TimeoutExpired"
     ELSE proc' = "None" /\ child' = child /\ result' = "ok"
  /\ lastOp' = "wait_exit"
  /\ UNCHANGED <<buf, full_log, cmd_seq, pipe, out, op, epc, caller, pattern,
                 now, deadline, selectUntil, matchStart, matchEnd, prevStart, prevEnd,
                 markers, emits, timeout, deadAtCall, deadIters, iters, held>>

\* wait_exit: wait(timeout), kill on TimeoutExpired, and the handle is
\* cleared; without a handle self.proc.wait raises AttributeError
wait_exit ==
  /\ IF proc = "None"
     THEN proc' = proc /\ child' = child /\ result' = "AttributeError"
     ELSE proc' = "None" /\ child' = "exited" /\ result' = "ok"
  /\ lastOp' = "wait_exit"
  /\ UNCHANGED <<buf, full_log, cmd_seq, pipe, out, op, epc, caller, pattern,
                 now, deadline, selectUntil, matchStart, matchEnd, prevStart, prevEnd,
                 markers, emits, timeout, deadAtCall, deadIters, iters, held>>

\* ------------------------------------------------- the caller of the driver
\* literal patterns a caller passes to expect
Patterns == {<<>>, <<"x">>, <<"y">>}

Timeouts == {0, MaxT}

Construct == op = "idle" /\ QemuDriver_init /\ UNCHANGED mainVars

Start ==
  /\ op = "idle" /\ proc = "None" /\ child = "unspawned"
  /\ \E spawned \in BOOLEAN : start(spawned)
  /\ UNCHANGED mainVars

Expect ==
  /\ op = "idle"
  /\ \E p \in Patterns, T \in Timeouts : expect_call(p, T, "expect")
  /\ UNCHANGED <<proc, child, buf, full_log, cmd_seq, pipe, out, matchStart,
                 matchEnd, prevStart, prevEnd, markers, emits>>
  /\ UNCHANGED mainVars

SendLine ==
  /\ op = "idle"
  /\ lastOp' = "send_line" /\ result' = send_line_result
  /\ UNCHANGED <<proc, child, buf, full_log, cmd_seq, pipe, out, op, epc,
                 caller, pattern, now, deadline, selectUntil, matchStart,
                 matchEnd, prevStart, prevEnd, markers, emits, timeout, deadAtCall,
                 deadIters, iters, held>>
  /\ UNCHANGED mainVars

\* send_cmd: the counter is bumped, the marker made, the line sent, and the
\* marker awaited at the start of a line
SendCmd ==
  /\ op = "idle" /\ cmd_seq < MaxCmds
  /\ cmd_seq' = NextSeq
  /\ markers' = Append(markers, Marker(cmd_seq'))
  /\ IF send_line_result # "ok"
     THEN /\ lastOp' = "send_cmd" /\ result' = send_line_result
          /\ UNCHANGED <<op, epc, caller, pattern, now, deadline, timeout,
                         selectUntil, deadAtCall, deadIters, iters, held>>
     ELSE \E T \in Timeouts : expect_call(MarkerPattern(cmd_seq'), T, "send_cmd")
  /\ UNCHANGED <<proc, child, buf, full_log, pipe, out, matchStart, matchEnd,
                 prevStart, prevEnd, emits>>
  /\ UNCHANGED mainVars

Stop == op = "idle" /\ stop /\ UNCHANGED mainVars

WaitExit == op = "idle" /\ wait_exit /\ UNCHANGED mainVars

Next ==
  \/ Construct \/ Start \/ Expect \/ SendLine \/ SendCmd \/ Stop \/ WaitExit
  \/ ExpectTop \/ ExpectSelect \/ ExpectPoll
  \/ \E c \in EmitChunks : Emit(c)
  \/ ChildExit \/ Tick

Spec == Init /\ [][Next]_vars

\* A caller that starts the driver and then only calls expect, against a
\* subprocess that writes and exits as it likes.
ExpectNext ==
  \/ Start \/ Expect
  \/ ExpectTop \/ ExpectSelect \/ ExpectPoll
  \/ \E c \in EmitChunks : Emit(c)
  \/ ChildExit \/ Tick

\* The expect loop is sequential code that keeps running, and time passes
\* while it waits in select().
FairSpec ==
  /\ Init /\ [][ExpectNext]_vars
  /\ WF_vars(ExpectTop) /\ WF_vars(ExpectSelect) /\ WF_vars(ExpectPoll)
  /\ WF_vars(Tick)

\* patterns with a repetition a caller passes to expect (such as \d+)
GreedyPatterns == {<<"x", "+">>}

ExpectGreedy ==
  /\ op = "idle"
  /\ \E p \in GreedyPatterns, T \in Timeouts : expect_call(p, T, "expect")
  /\ UNCHANGED <<proc, child, buf, full_log, cmd_seq, pipe, out, matchStart,
                 matchEnd, prevStart, prevEnd, markers, emits>>
  /\ UNCHANGED mainVars

\* the subprocess writes more of the byte it wrote last
EmitRun == Emit(<<"x">>)

\* A caller that starts and stops the driver and calls expect with literal
\* and repeating patterns.
MatchNext ==
  \/ Start \/ Stop \/ Expect \/ ExpectGreedy
  \/ ExpectTop \/ ExpectSelect \/ ExpectPoll
  \/ \E c \in EmitChunks : Emit(c)
  \/ EmitRun \/ ChildExit \/ Tick

MatchSpec == Init /\ [][MatchNext]_vars

\* ------------------------------------------------------------- test steps
\* Each test step as the driver calls it makes, in order ("check" is a test
\* on a matched value that returns False without raising).
test_boot_login == <<"expect", "send_line", "expect">>

test_basic_commands == <<"send_cmd", "send_cmd", "send_line", "expect", "expect">>

test_time_subsystem ==
  <<"send_line", "expect", "expect", "check", "check",
    "send_line", "expect", "expect",
    "send_line", "expect", "expect", "check",
    "send_line", "expect", "expect",
    "send_line", "expect", "expect",
    "send_line", "expect">>

test_fay_install_xxd ==
  <<"send_line", "expect", "expect", "send_line", "expect", "expect",
    "send_cmd", "send_line", "expect", "expect">>

test_filesystem ==
  <<"send_cmd",
    "send_cmd", "send_line", "expect", "expect",
    "send_cmd", "send_line", "expect", "expect",
    "send_cmd", "send_line", "expect", "expect",
    "send_cmd", "send_cmd", "send_cmd", "send_cmd", "send_cmd", "send_cmd",
    "send_line", "expect", "expect",
    "send_line", "expect", "expect",
    "send_cmd", "send_line", "expect", "expect",
    "send_cmd", "send_line", "expect", "expect",
    "send_cmd", "send_cmd", "send_cmd">>

test_shutdown == <<"sleep", "send_line", "wait_exit">>

\* main, lines 642-675: the steps in the order main names them
Steps == <<[name |-> "test_boot_login", ops |-> test_boot_login],
           [name |-> "test_basic_commands", ops |-> test_basic_commands],
           [name |-> "test_time_subsystem", ops |-> test_time_subsystem],
           [name |-> "test_fay_install_xxd", ops |-> test_fay_install_xxd],
           [name |-> "test_filesystem", ops |-> test_filesystem],
           [name |-> "test_shutdown", ops |-> test_shutdown]>>

\* What a step knows of the driver between two calls: whether the
\* subprocess runs, whether self.proc is set, how many send_cmd it made,
\* whether any expect of it matched.
DrvState(alive, handle, n, matched) ==
  [alive |-> alive, handle |-> handle, n |-> n, matched |-> matched]

\* the subprocess may exit right after the call
MayDie(res, d) ==
  {[res |-> res, d |-> d]} \cup
  (IF d.alive THEN {[res |-> res, d |-> [d EXCEPT !.alive = FALSE]]} ELSE {})

\* How expect (timeout > 0, non-empty pattern) can end: a match; with the
\* subprocess running, TimeoutError, or RuntimeError when it exits; with
\* the subprocess exited, RuntimeError.
ExpectEnds(d) ==
  MayDie("ok", [d EXCEPT !.matched = TRUE])
  \cup (IF d.alive THEN MayDie("TimeoutError", d) ELSE {})
  \cup {[res |-> "RuntimeError", d |-> [d EXCEPT !.alive = FALSE]]}

\* How send_line can end: BrokenPipeError once the subprocess has exited
SendLineEnds(d) ==
  IF d.alive THEN MayDie("ok", d) ELSE {[res |-> "BrokenPipeError", d |-> d]}

\* How one driver call (or check) of a step can end
CallEnds(kind, d) ==
  CASE kind = "expect" -> ExpectEnds(d)
    [] kind = "send_line" -> SendLineEnds(d)
    [] kind = "send_cmd" ->
         LET d1 == [d EXCEPT !.n = d.n + 1]
         IN UNION {IF r.res = "ok" THEN ExpectEnds(r.d) ELSE {r} : r \in SendLineEnds(d1)}
    [] kind = "check" -> {[res |-> "ok", d |-> d], [res |-> "False", d |-> d]}
    [] kind = "sleep" -> MayDie("ok", d)
    [] kind = "wait_exit" ->
         {[res |-> "ok", d |-> [d EXCEPT !.alive = FALSE, !.handle = FALSE]]}

\* the driver states in which call i of the step can begin
RECURSIVE Before(_, _, _)
Before(ops, i, d0) ==
  IF i = 1 THEN {d0}
  ELSE {r.d : r \in {q \in UNION {CallEnds(ops[i - 1], d) : d \in Before(ops, i - 1, d0)} :
                       q.res = "ok"}}

\* except (TimeoutError, RuntimeError): log_fail, return False; anything
\* else leaves the step
StepReturn(res) ==
  CASE res \in {"TimeoutError", "RuntimeError", "False"} -> "False"
    [] res = "BrokenPipeError" -> "Exception"
    [] OTHER -> "True"

\* Every way the step can end: "True", "False", "Exception" (an error it
\* does not catch) or "KeyboardInterrupt", with the driver state then.
StepEnds(ops, d0) ==
  LET n == Len(ops)
      failing == UNION {UNION {{[how |-> StepReturn(r.res), d |-> r.d] :
                                  r \in {q \in CallEnds(ops[i], d) : q.res # "ok"}} :
                                 d \in Before(ops, i, d0)} : i \in 1..n}
      passing == {[how |-> "True", d |-> d] : d \in Before(ops, n + 1, d0)}
      interrupted == {[how |-> "KeyboardInterrupt", d |-> d] :
                        d \in UNION {Before(ops, j, d0) : j \in 1..(n + 1)}}
  IN failing \cup passing \cup interrupted

\* the markers of n further send_cmd calls
RECURSIVE NewMarkers(_, _)
NewMarkers(seq, n) ==
  IF n = 0 THEN <<>> ELSE <<Marker(seq + 1)>> \o NewMarkers(seq + 1, n - 1)

\* What a step leaves in the driver: s is what its expect calls read.
StepEffect(e, s) ==
  /\ cmd_seq' = cmd_seq + e.d.n
  /\ markers' = markers \o NewMarkers(cmd_seq, e.d.n)
  /\ child' = IF e.d.alive THEN "running" ELSE "exited"
  /\ proc' = IF e.d.handle THEN proc ELSE "None"
  /\ full_log' = Logged(full_log, s)
  /\ out' = out \o s /\ pipe' = <<>>
  /\ buf' = IF e.d.matched THEN <<>> ELSE Buffered(buf, s)
  /\ UNCHANGED <<op, epc, caller, pattern, now, deadline, selectUntil, lastOp,
                 result, matchStart, matchEnd, prevStart, prevEnd, emits,
                 timeout, deadAtCall, deadIters, iters, held>>

\* -------------------------------------------------------------------- main
\* the statements of the try body, by position
PreFlight == <<"find_ovmf", "check_port", "build", "build_tools", "check_xxd">>

TryBody == {PreFlight[i] : i \in 1..Len(PreFlight)}
           \cup {"package", "disk", "construct", "start", "step", "count", "cleanup"}

\* if failed == 0: guards every step but the first
MayRun_Always(k) == TRUE

MayRun(k) == k = 1 \/ failed = 0

\* if test_x(qemu): passed += 1 else: failed += 1
Tally_PassedOnly(r) ==
  /\ passed' = passed + 1
  /\ failed' = failed

Tally(r) ==
  /\ passed' = IF r = "True" THEN passed + 1 ELSE passed
  /\ failed' = IF r = "True" THEN failed ELSE failed + 1

\* the summary: return 0 if failed == 0 else 1
ExitCode_AnyPassed == IF passed > 0 THEN 0 ELSE 1

ExitCode == IF failed = 0 THEN 0 ELSE 1

\* handlers that report the event without counting it
Except_NotCounted(kind) ==
  /\ failed' = failed /\ left' = kind /\ pc' = "finally"
  /\ abortAt' = pc

\* except KeyboardInterrupt / except Exception: failed += 1, then finally
Except(kind) ==
  /\ failed' = failed + 1 /\ left' = kind /\ pc' = "finally"
  /\ abortAt' = pc

\* a pre-flight check whose failure is reported but does not end the run
Check_FailureGoesOn(ok) ==
  /\ \E i \in 1..Len(PreFlight) :
       /\ pc = PreFlight[i]
       /\ pc' = IF i < Len(PreFlight) THEN PreFlight[i + 1] ELSE "package"
       /\ abortAt' = IF ok THEN abortAt ELSE pc
  /\ UNCHANGED <<passed, failed, qemu, stepNo, ret, calls, left, exitStatus,
                 logFile, started>>
  /\ UNCHANGED driverVars

\* A pre-flight check: it passes, or main returns 1 from inside the try
Check(ok) ==
  /\ \E i \in 1..Len(PreFlight) :
       /\ pc = PreFlight[i]
       /\ IF ok
          THEN /\ pc' = IF i < Len(PreFlight) THEN PreFlight[i + 1] ELSE "package"
               /\ left' = left /\ abortAt' = abortAt
          ELSE pc' = "finally" /\ left' = "return" /\ abortAt' = pc
  /\ UNCHANGED <<passed, failed, qemu, stepNo, ret, calls, exitStatus, logFile,
                 started>>
  /\ UNCHANGED driverVars

\* the tarball, repo.json and the HTTP server; then the rootfs and the disk
Package ==
  /\ pc = "package" /\ pc' = "disk"
  /\ UNCHANGED <<passed, failed, qemu, stepNo, ret, calls, left, exitStatus,
                 logFile, started, abortAt>>
  /\ UNCHANGED driverVars

Disk ==
  /\ pc = "disk" /\ pc' = "construct"
  /\ UNCHANGED <<passed, failed, qemu, stepNo, ret, calls, left, exitStatus,
                 logFile, started, abortAt>>
  /\ UNCHANGED driverVars

\* qemu = QemuDriver(ovmf, esp_dir, disk_img)
NewQemu ==
  /\ pc = "construct" /\ pc' = "start"
  /\ QemuDriver_init /\ qemu' = TRUE
  /\ UNCHANGED <<passed, failed, stepNo, ret, calls, left, exitStatus, logFile,
                 started, abortAt>>

\* qemu.start(): an error of Popen is an unexpected error of the run
StartQemu ==
  /\ pc = "start"
  /\ \E spawned \in BOOLEAN :
       /\ start(spawned)
       /\ IF spawned
          THEN pc' = "step" /\ UNCHANGED <<failed, left, abortAt>>
          ELSE Except("Exception")
  /\ started' = TRUE
  /\ UNCHANGED <<passed, qemu, stepNo, ret, calls, exitStatus, logFile>>

\* after step k: the next if statement, or the cleanup
AfterStep(k) == IF k < Len(Steps) THEN "step" ELSE "cleanup"

\* if failed == 0: if test_x(qemu): the call of a step, to its end
RunStep ==
  /\ pc = "step" /\ MayRun(stepNo)
  /\ \E e \in StepEnds(Steps[stepNo].ops, DrvState(child = "running", TRUE, 0, FALSE)),
        s \in {<<>>, <<"y", "x">>} :
       /\ e.d.matched => s # <<>>
       /\ StepEffect(e, s)
       /\ calls' = Append(calls, [name |-> Steps[stepNo].name, how |-> e.how,
                                 tallied |-> FALSE])
       /\ IF e.how \in {"True", "False"}
          THEN /\ ret' = e.how /\ pc' = "count"
               /\ UNCHANGED <<failed, left, abortAt>>
          ELSE /\ ret' = ret
               /\ Except(e.how)
  /\ UNCHANGED <<passed, qemu, stepNo, exitStatus, logFile, started>>

\* if failed == 0 is false: the step is not called
SkipStep ==
  /\ pc = "step" /\ ~MayRun(stepNo)
  /\ pc' = AfterStep(stepNo) /\ stepNo' = stepNo + 1
  /\ UNCHANGED <<passed, failed, qemu, ret, calls, left, exitStatus, logFile,
                 started, abortAt>>
  /\ UNCHANGED driverVars

\* passed += 1 or failed += 1
Count ==
  /\ pc = "count"
  /\ Tally(ret)
  /\ calls' = [calls EXCEPT ![Len(calls)].tallied = TRUE]
  /\ pc' = AfterStep(stepNo) /\ stepNo' = stepNo + 1
  /\ UNCHANGED <<qemu, ret, left, exitStatus, logFile, started, abortAt>>
  /\ UNCHANGED driverVars

\* http_server.shutdown(), and the try body ends
Cleanup ==
  /\ pc = "cleanup" /\ pc' = "finally" /\ left' = "end"
  /\ UNCHANGED <<passed, failed, qemu, stepNo, ret, calls, exitStatus, logFile,
                 started, abortAt>>
  /\ UNCHANGED driverVars

\* Ctrl-C at any statement of the try body
Interrupt ==
  /\ pc \in TryBody
  /\ Except("KeyboardInterrupt")
  /\ UNCHANGED <<passed, qemu, stepNo, ret, calls, exitStatus, logFile, started>>
  /\ UNCHANGED driverVars

\* an error of a helper or a library call of the try body
Unexpected ==
  /\ pc \in TryBody \ {"step", "count", "construct", "start"}
  /\ Except("Exception")
  /\ UNCHANGED <<passed, qemu, stepNo, ret, calls, exitStatus, logFile, started>>
  /\ UNCHANGED driverVars

\* a finally block that stops the driver only after a complete try body
Finally_StopAfterCleanupOnly ==
  /\ pc = "finally"
  /\ IF qemu /\ left = "end" THEN stop ELSE UNCHANGED driverVars
  /\ IF left = "return"
     THEN pc' = "done" /\ exitStatus' = 1
     ELSE pc' = "summary" /\ exitStatus' = exitStatus
  /\ UNCHANGED <<passed, failed, qemu, stepNo, ret, calls, left, logFile,
                 started, abortAt>>

\* finally: if qemu: qemu.stop(); a return 1 of the try body completes
Finally ==
  /\ pc = "finally"
  /\ IF qemu THEN stop ELSE UNCHANGED driverVars
  /\ IF left = "return"
     THEN pc' = "done" /\ exitStatus' = 1
     ELSE pc' = "summary" /\ exitStatus' = exitStatus
  /\ UNCHANGED <<passed, failed, qemu, stepNo, ret, calls, left, logFile,
                 started, abortAt>>

\* the log saved only when no step had passed
SavesLog_IfNonePassed == failed # 0 /\ qemu /\ full_log # <<>> /\ passed = 0

\* the else branch of the summary: if qemu and qemu.full_log
SavesLog == failed # 0 /\ qemu /\ full_log # <<>>

\* the summary: the serial log is saved when something failed
Summary ==
  /\ pc = "summary" /\ pc' = "done"
  /\ exitStatus' = ExitCode
  /\ logFile' = IF SavesLog
                THEN [written |-> TRUE, bytes |-> full_log]
                ELSE logFile
  /\ UNCHANGED <<passed, failed, qemu, stepNo, ret, calls, left, started, abortAt>>
  /\ UNCHANGED driverVars

MainNext ==
  \/ \E ok \in BOOLEAN : Check(ok)
  \/ Package \/ Disk \/ NewQemu \/ StartQemu
  \/ RunStep \/ SkipStep \/ Count \/ Cleanup
  \/ Interrupt \/ Unexpected
  \/ Finally \/ Summary

SpecMain == Init /\ [][MainNext]_vars

\* ------------------------------------------------------------------ claims
\* how many steps were invoked and ended as `how`
Ended(how) == Cardinality({i \in 1..Len(calls) : calls[i].how = how})

\* how many results `how` main has added to its tally
Tallied(how) ==
  Cardinality({i \in 1..Len(calls) : calls[i].how = how /\ calls[i].tallied})

AllSixPassed == Len(calls) = Len(Steps) /\ Ended("True") = Len(Steps)

\* C1: the steps are invoked in declaration order, each at most once, and a
\* step is invoked only after every step before it was invoked and
\* returned pass; no step is invoked after one returned failure.
C1_StepsInOrderFailFast ==
  /\ Len(calls) <= Len(Steps)
  /\ \A i \in 1..Len(calls) :
       /\ calls[i].name = Steps[i].name
       /\ i < Len(calls) => calls[i].how = "True"

\* a run in which the third step failed and the rest was skipped
C1_Witness ==
  /\ pc = "done" /\ left = "end" /\ Len(calls) = 3
  /\ calls[3].how = "False" /\ calls[2].how = "True"

\* C2 as stated: at the end of every run, interrupted ones included, failed
\* is the number of steps that returned failure and passed the number that
\* returned pass.
C2_CountsAreStepResults ==
  pc = "done" => (failed = Ended("False") /\ passed = Ended("True"))

\* C2: the counts are the step results when the try body ran to its end;
\* a run left by an interrupt or an unexpected error counts one failure
\* more than the failures tallied, and a result returned but not yet
\* tallied is in neither count.
C2_CountsAreTalliedPlusAbort ==
  pc = "done" =>
    /\ passed = Tallied("True")
    /\ failed = Tallied("False")
                + (IF left \in {"KeyboardInterrupt", "Exception"} THEN 1 ELSE 0)
    /\ left = "end" => (passed = Ended("True") /\ failed = Ended("False"))

\* a run interrupted after two passes were tallied
C2_Witness ==
  /\ pc = "done" /\ left = "KeyboardInterrupt"
  /\ passed = 2 /\ failed = 1 /\ Ended("False") = 0

\* C3 as stated: exit status 0 exactly when all six steps were invoked and
\* passed, 1 otherwise.
C3_ZeroIffAllSixPassed ==
  pc = "done" => /\ exitStatus \in {0, 1}
                 /\ exitStatus = 0 <=> AllSixPassed

\* C3: exit status 0 exactly when all six steps were invoked and passed and
\* the try body ran to its end; 1 when a step failed, a pre-flight check
\* failed, start failed, or an interrupt or unexpected error occurred.
C3_ZeroIffAllSixPassedAndNoAbort ==
  pc = "done" => /\ exitStatus \in {0, 1}
                 /\ exitStatus = 0 <=> (AllSixPassed /\ left = "end")
                 /\ left \in {"return", "KeyboardInterrupt", "Exception"} => exitStatus = 1
                 /\ Ended("False") > 0 => exitStatus = 1

\* a run that passed all six steps and exits 0
C3_Witness == pc = "done" /\ exitStatus = 0 /\ passed = 6 /\ AllSixPassed

Idle(who, res) == op = "idle" /\ lastOp = who /\ result = res

\* C4 as stated, for matches of at least one byte: the start offset of each
\* successive match is strictly greater than the end offset (m.end()) of
\* the previous match.
C4_StartStrictlyAfterPrevEnd ==
  (prevEnd > prevStart /\ prevStart >= 0 /\ matchEnd > matchStart)
    => matchStart > prevEnd

\* C4 amended: the start offset of each successive match is greater than or
\* equal to the end offset (m.end(), one past the last matched byte) of
\* the previous match: successive matches never overlap, but may be adjacent.
C4_StartNotBeforePrevEnd == prevEnd >= 0 => matchStart >= prevEnd

C4_Witness ==
  /\ prevEnd > prevStart /\ prevStart >= 0
  /\ matchEnd > matchStart /\ matchStart > prevEnd

\* C5: after a successful expect the working buffer is exactly the bytes the
\* driver had read after the end of the match: nothing up to the match end
\* stays, nothing after it is lost.
C5_BufferIsRestAfterMatch ==
  (op = "idle" /\ result = "ok" /\ lastOp \in {"expect", "send_cmd"})
    => /\ matchEnd >= 0 /\ matchEnd <= Len(out) - Len(pipe)
       /\ buf = SubSeq(out, matchEnd + 1, Len(out) - Len(pipe))

C5_Witness ==
  /\ Idle("expect", "ok") /\ matchStart >= 1 /\ matchEnd > matchStart
  /\ Len(buf) >= 1

\* C6: the transcript is everything the subprocess wrote less what is still
\* unread, that is the concatenation of every chunk read, and a step of the
\* driver only ever appends to it (a new driver starts its own).
C6_TranscriptIsAllChunksRead ==
  /\ [](full_log \o pipe = out)
  /\ [][Construct \/ IsPrefix(full_log, full_log')]_vars

C6_Witness ==
  /\ lastOp = "stop" /\ Len(full_log) >= 2 /\ Len(buf) < Len(full_log)
  /\ matchEnd >= 1

\* C7: the markers send_cmd generated are pairwise distinct and their
\* integers strictly increase in call order, whatever became of each call
\* and whichever driver instance made it.
C7_MarkersStrictlyIncrease ==
  \A i, j \in 1..Len(markers) :
    i < j => /\ markers[i] # markers[j]
             /\ MarkerInt(markers[i]) < MarkerInt(markers[j])

C7_Witness ==
  /\ Len(markers) >= 2 /\ lastOp = "send_cmd"
  /\ result \in {"TimeoutError", "BrokenPipeError", "AttributeError"}
  /\ child = "unspawned"

\* C8: an expect with a finite timeout always ends, and when it ends with
\* TimeoutError it does so no earlier than the timeout and no later than
\* the timeout plus one polling interval.
C8_ExpectEndsWithinTimeout ==
  /\ [](result = "TimeoutError" => (now >= timeout /\ now <= timeout + PollTicks))
  /\ [](op = "expect" => <>(op = "idle"))

C8_Witness ==
  /\ op = "idle" /\ result = "TimeoutError" /\ timeout = MaxT /\ now = MaxT
  /\ child = "running" /\ out # <<>>

\* C9 as stated, for a positive timeout: an expect called after the
\* subprocess exited fails with ProcessExited (RuntimeError).
C9_DeadAtCallRaisesProcessExited ==
  [][(op = "expect" /\ deadAtCall /\ timeout > 0 /\ op' = "idle")
      => result' = "RuntimeError"]_vars

\* C9 amended: an expect called with a positive timeout after the subprocess
\* exited ends in its first loop iteration without waiting, with the match
\* if the pattern matches the buffer plus the chunk read then and with
\* ProcessExited otherwise; and no loop iteration begun after the exit is
\* followed by another one.
C9_DeadProcessEndsExpectAtOnce ==
  /\ [][(op = "expect" /\ deadAtCall /\ timeout > 0 /\ op' = "idle")
          => (result' \in {"ok", "RuntimeError"} /\ now = 0 /\ deadIters = 1)]_vars
  /\ [](deadIters <= 1)

C9_Witness ==
  /\ op = "expect" /\ epc = "poll" /\ deadAtCall /\ timeout > 0
  /\ deadIters = 1 /\ now = 0 /\ buf # <<>>

\* C10: send_cmd returns normally only when the bytes that matched, in the
\* subprocess output, are a line terminator followed by the marker of this
\* very call.
C10_SendCmdEndsOnOwnMarkerLine ==
  Idle("send_cmd", "ok")
    => /\ matchStart >= 0
       /\ SubSeq(out, matchStart + 1, matchEnd) = <<NL>> \o Marker(cmd_seq)
       /\ markers[Len(markers)] = Marker(cmd_seq)

C10_Witness ==
  /\ Idle("send_cmd", "ok")
  /\ Contains(SubSeq(out, 1, matchStart), EchoTail(cmd_seq))

\* C11: stop, called in any driver state and any number of times, raises
\* nothing and leaves the subprocess not running and the handle cleared;
\* on a driver without a handle (never started, stopped, after wait_exit)
\* it changes no field of the driver and nothing of the subprocess.
C11_StopIsIdempotent ==
  [][Stop => /\ result' = "ok" /\ proc' = "None" /\ child' # "running"
             /\ proc = "None" =>
                  UNCHANGED <<proc, child, buf, full_log, cmd_seq, pipe, out,
                              markers>>]_vars

\* stop has ended a subprocess that had written output
C11_Witness ==
  /\ lastOp = "stop" /\ result = "ok" /\ proc = "None" /\ child = "exited"
  /\ full_log # <<>>

\* C12 as stated: whenever a run ends with a failed step, the complete
\* transcript is written to test-serial.log.
C12_LogWrittenOnStepFailure ==
  (pc = "done" /\ Ended("False") > 0) =>
    (logFile.written /\ logFile.bytes = full_log)

\* C12: whenever a run ends with a failed step and a non-empty transcript,
\* the complete transcript is written to test-serial.log; with an empty
\* transcript no file is written.
C12_NonEmptyLogWrittenOnStepFailure ==
  (pc = "done" /\ Ended("False") > 0) =>
    /\ logFile.written <=> full_log # <<>>
    /\ logFile.written => logFile.bytes = full_log

\* a run whose second step failed, with its transcript saved
C12_Witness ==
  /\ pc = "done" /\ Ended("False") = 1 /\ passed = 1
  /\ logFile.written /\ logFile.bytes = full_log /\ full_log # <<>>

\* the statements of main that come before the driver is constructed
BeforeDriver == {PreFlight[i] : i \in 1..Len(PreFlight)} \cup {"package", "disk"}

\* C13: when a pre-flight check fails (a return 1, or an error of the
\* package or disk helpers) the run ends with exit status 1 and start is
\* never called; start is called only after every pre-flight statement
\* succeeded.
C13_PreFlightFailureAbortsBeforeStart ==
  /\ started => (pc \notin BeforeDriver /\ abortAt \notin BeforeDriver)
  /\ (pc = "done" /\ abortAt \in BeforeDriver) =>
       /\ exitStatus = 1
       /\ ~started /\ ~qemu /\ child = "unspawned" /\ calls = <<>>

\* a run ended by the disk image tool failing
C13_Witness ==
  /\ pc = "done" /\ abortAt = "disk" /\ left = "Exception"
  /\ exitStatus = 1 /\ ~started

\* C14: on every path by which main finishes after start was called, stop
\* was the last driver operation made, the handle is cleared, and the
\* subprocess is not running.
C14_StoppedBeforeMainReturns ==
  (pc \in {"summary", "done"} /\ started) =>
    /\ lastOp = "stop" /\ result = "ok"
    /\ proc = "None" /\ child # "running"

\* a run interrupted inside its second step, with the subprocess stopped
C14_Witness ==
  /\ pc = "done" /\ started /\ left = "KeyboardInterrupt" /\ abortAt = "step"
  /\ Len(calls) = 2 /\ calls[2].how = "KeyboardInterrupt"
  /\ child = "exited" /\ proc = "None" /\ lastOp = "stop"

\* C15 as stated: every invoked step ends by returning a boolean; no
\* error of a driver operation it performs (TimeoutError, RuntimeError, a
\* failure of the write to the subprocess) leaves the step.
C15_NoDriverErrorLeavesAStep ==
  \A i \in 1..Len(calls) : calls[i].how # "Exception"

\* the second step left by the error of a write, after the first passed
C15_Witness ==
  /\ pc = "done" /\ Len(calls) = 2 /\ calls[1].how = "True"
  /\ calls[2].how = "Exception" /\ left = "Exception" /\ abortAt = "step"
  /\ passed = 1 /\ failed = 1 /\ exitStatus = 1

\* C16: when start fails to spawn the subprocess the run is over: no step
\* is invoked, nothing is read, and main returns 1.
C16_StartFailureEndsRun ==
  (abortAt = "start" /\ left = "Exception") =>
    /\ pc \in {"finally", "summary", "done"}
    /\ calls = <<>> /\ passed = 0
    /\ child = "unspawned" /\ proc = "None"
    /\ full_log = <<>> /\ buf = <<>> /\ out = <<>>
    /\ pc = "done" => exitStatus = 1

\* a run ended by a start that could not spawn
C16_Witness ==
  /\ pc = "done" /\ abortAt = "start" /\ left = "Exception" /\ started
  /\ exitStatus = 1 /\ failed = 1 /\ lastOp = "stop"

\* C17 as stated: a loop iteration of expect that finds the descriptor
\* readable takes every byte available then into the working buffer and
\* the transcript, before the search and before the exit check.
C17_ReadableIterationDrainsPipe ==
  [][(ExpectSelect /\ pipe # <<>>) =>
       /\ pipe' = <<>>
       /\ full_log' = full_log \o pipe]_vars

\* an iteration has read one full chunk, found no match, and is at the
\* exit check with output still unread and the subprocess gone
C17_Witness ==
  /\ op = "expect" /\ epc = "poll" /\ child = "exited"
  /\ Len(full_log) = ReadSize /\ pipe # <<>> /\ full_log \o pipe = out

\* C18 as stated: expect raises RuntimeError for the exited subprocess only
\* when the pattern matches nowhere in the working buffer followed by the
\* output still unread at that moment.
C18_ExitCheckLosesNoOutput ==
  [][(op = "expect" /\ result' = "RuntimeError") =>
       ~Search(pattern, buf \o pipe).found]_vars

\* expect has raised RuntimeError and left output of the exited subprocess
\* unread
C18_Witness ==
  /\ Idle("expect", "RuntimeError") /\ child = "exited" /\ proc = "Popen"
  /\ pipe # <<>> /\ Contains(pipe, <<"x">>) /\ ~Contains(buf, <<"x">>)

\* what a step appended to the transcript
NewlyLogged == SubSeq(full_log', Len(full_log) + 1, Len(full_log'))

\* C19: a step of an expect call that does not end it with a match only
\* appends to the working buffer, and appends exactly what it read, so a
\* failed call leaves the buffer as it was at the call followed by every
\* byte read during the call; send_line, stop and wait_exit change neither
\* the working buffer nor the transcript.
C19_FailedExpectKeepsBuffer ==
  /\ [][(op = "expect" /\ result' # "ok") =>
          /\ IsPrefix(full_log, full_log')
          /\ buf' = buf \o NewlyLogged]_vars
  /\ [][(SendLine \/ Stop \/ WaitExit) => UNCHANGED <<buf, full_log>>]_vars

\* expect has timed out with bytes it read itself behind older ones
C19_Witness ==
  /\ Idle("expect", "TimeoutError") /\ timeout > 0
  /\ Len(buf) > 2 /\ IsPrefix(<<"x">>, buf) /\ Len(full_log) > Len(buf)

IsSuffix(s, t) ==
  Len(s) <= Len(t) /\ SubSeq(t, Len(t) - Len(s) + 1, Len(t)) = s

\* C20: in every reachable driver state the working buffer is a suffix of
\* the transcript, and every step other than the construction of a new
\* driver leaves it a suffix of the old buffer followed by what the step
\* read: bytes are appended at the end and dropped at the front only.
C20_BufferIsSuffixOfTranscript ==
  /\ [](IsSuffix(buf, full_log))
  /\ [][Construct \/ IsSuffix(buf', buf \o NewlyLogged)]_vars

\* after a match in the middle of the output, the rest is still buffered
C20_Witness ==
  /\ Idle("expect", "ok") /\ matchEnd > 0
  /\ buf # <<>> /\ Len(buf) < Len(full_log) /\ IsSuffix(buf, full_log)

\* C21 as stated, for a driver that holds its subprocess handle: an expect
\* called with a positive timeout while the working buffer contains a
\* match returns that match, the leftmost one in the buffer, within its
\* first loop iteration.
C21_BufferedMatchReturnedAtOnce ==
  [][(op = "expect" /\ held.found /\ timeout > 0 /\ proc # "None"
      /\ op' = "idle") =>
       /\ result' = "ok" /\ iters = 1
       /\ matchStart' = held.start /\ matchEnd' = held.end]_vars

\* C21: on a driver that holds its subprocess handle, an expect called with
\* a positive timeout while the working buffer contains a match returns
\* within its first loop iteration, before any later timeout check and
\* before the exit check, the leftmost match in the buffer followed by what
\* that iteration read; it is the match the buffer held when the iteration
\* read nothing.
C21_BufferedMatchEndsFirstIteration ==
  [][(op = "expect" /\ held.found /\ timeout > 0 /\ proc # "None"
      /\ op' = "idle") =>
       /\ result' = "ok" /\ iters = 1 /\ epc = "select"
       /\ LET m == Search(pattern, buf \o NewlyLogged)
              base == Len(full_log) - Len(buf)
          IN /\ m.found
             /\ matchStart' = base + m.start /\ matchEnd' = base + m.end
       /\ NewlyLogged = <<>> =>
            (matchStart' = held.start /\ matchEnd' = held.end)]_vars

\* the subprocess has exited, and an expect for a repetition has returned a
\* match that begins in what the buffer held and ends in what it read
C21_Witness ==
  /\ Idle("expect", "ok") /\ child = "exited" /\ proc = "Popen"
  /\ matchStart = 1 /\ matchEnd = 3 /\ prevEnd = 1
  /\ SubSeq(out, 2, 3) = <<"x", "x">>

\* C22: wait_exit on a driver that holds its handle returns normally
\* whether the subprocess had exited or was still running (it is then
\* waited for and, if need be, killed); afterwards the subprocess is not
\* running and the handle is cleared; and test_shutdown, entered on a
\* started driver, never returns failure, and where it passes the
\* subprocess is gone and the handle cleared.
C22_WaitExitEndsSubprocess ==
  /\ [][(WaitExit /\ proc # "None") =>
          /\ result' = "ok" /\ proc' = "None" /\ child' = "exited"
          /\ UNCHANGED <<buf, full_log>>]_vars
  /\ \A alive \in BOOLEAN :
       \A e \in StepEnds(test_shutdown, DrvState(alive, TRUE, 0, FALSE)) :
         /\ e.how # "False"
         /\ e.how = "True" => (~e.d.alive /\ ~e.d.handle)

\* wait_exit has returned on a driver whose subprocess had written output
C22_Witness ==
  /\ Idle("wait_exit", "ok") /\ proc = "None" /\ child = "exited"
  /\ full_log # <<>> /\ pipe # <<>>

====
